---- MODULE Spec2Model ----
(***************************************************************************)
(* Call-Center-Dashboard-WFM: the metrics computation and reconciliation   *)
(* engine (MetricsCalculator.calculateDetailedMetrics), the Dashboard's    *)
(* inline metric computation, and the part of the upload flow that hands   *)
(* the tables to them.                                                     *)
(*                                                                         *)
(* Representation.                                                         *)
(*  - A JavaScript string is a sequence of one-character strings.  A       *)
(*    missing field (undefined) is the one-element sequence Undefined,     *)
(*    which no text of the model equals.                                   *)
(*  - A JavaScript number is a record [n, d]: the rational n/d in lowest   *)
(*    terms with d > 0, or one of the IEEE specials NaN = 0/0,             *)
(*    Infinity = 1/0, -Infinity = -1/0.  Finite arithmetic is exact: the   *)
(*    rounding of binary floating point is not modelled.                   *)
(*  - The decimal text produced by toFixed(k) is represented by the number *)
(*    it denotes (the value rounded to k decimals), or by the special      *)
(*    itself for the texts "NaN", "Infinity" and "-Infinity".              *)
(***************************************************************************)
EXTENDS Integers, Sequences, FiniteSets, TLC

(***************************************************************************)
(* JavaScript numbers                                                      *)
(***************************************************************************)
Abs(i) == IF i < 0 THEN -i ELSE i

Sign(i) == IF i < 0 THEN -1 ELSE IF i > 0 THEN 1 ELSE 0

RECURSIVE GCD(_, _)
GCD(a, b) == IF b = 0 THEN a ELSE GCD(b, a % b)

Norm(n, d) ==
  IF d = 0 THEN [n |-> Sign(n), d |-> 0]
  ELSE LET g == GCD(Abs(n), Abs(d))
       IN  [n |-> Sign(d) * Sign(n) * (Abs(n) \div g), d |-> Abs(d) \div g]

Num(i) == [n |-> i, d |-> 1]

NaN == [n |-> 0, d |-> 0]

Infinity == [n |-> 1, d |-> 0]

IsNaN(x) == x.d = 0 /\ x.n = 0

IsFinite(x) == x.d # 0

NumAdd(a, b) ==
  IF IsNaN(a) \/ IsNaN(b) THEN NaN
  ELSE IF ~IsFinite(a) /\ ~IsFinite(b) THEN (IF a.n = b.n THEN a ELSE NaN)
  ELSE IF ~IsFinite(a) THEN a
  ELSE IF ~IsFinite(b) THEN b
  ELSE Norm(a.n * b.d + b.n * a.d, a.d * b.d)

NumNeg(a) == [n |-> -a.n, d |-> a.d]

NumSub(a, b) == NumAdd(a, NumNeg(b))

NumMul(a, b) ==
  IF IsNaN(a) \/ IsNaN(b) THEN NaN
  ELSE IF ~IsFinite(a) \/ ~IsFinite(b)
       THEN (IF a.n = 0 \/ b.n = 0 THEN NaN ELSE [n |-> Sign(a.n) * Sign(b.n), d |-> 0])
  ELSE Norm(a.n * b.n, a.d * b.d)

\* IEEE division: x/0 is an infinity, 0/0 and Infinity/Infinity are NaN.
NumDiv(a, b) ==
  IF IsNaN(a) \/ IsNaN(b) THEN NaN
  ELSE IF ~IsFinite(b) THEN (IF IsFinite(a) THEN Num(0) ELSE NaN)
  ELSE IF ~IsFinite(a) THEN [n |-> a.n * (IF b.n < 0 THEN -1 ELSE 1), d |-> 0]
  ELSE IF b.n = 0 THEN [n |-> Sign(a.n), d |-> 0]
  ELSE Norm(a.n * b.d, a.d * b.n)

\* a > b; every comparison with NaN is false.
NumGt(a, b) ==
  IF IsNaN(a) \/ IsNaN(b) THEN FALSE
  ELSE IF IsFinite(a) /\ IsFinite(b) THEN a.n * b.d > b.n * a.d
  ELSE IF ~IsFinite(a) /\ ~IsFinite(b) THEN a.n > b.n
  ELSE IF ~IsFinite(a) THEN a.n > 0
  ELSE b.n < 0

NumLe(a, b) == ~IsNaN(a) /\ ~IsNaN(b) /\ ~NumGt(a, b)

\* x || 0 on numbers: NaN and 0 are falsy.
OrZero(x) == IF IsNaN(x) THEN Num(0) ELSE x

MathAbs(x) == [n |-> Abs(x.n), d |-> x.d]

\* Math.round: the nearest integer, halves towards +Infinity.
MathRound(x) ==
  IF ~IsFinite(x) THEN x ELSE Num((2 * x.n + x.d) \div (2 * x.d))

RECURSIVE Pow10(_)
Pow10(k) == IF k = 0 THEN 1 ELSE 10 * Pow10(k - 1)

\* Number.prototype.toFixed(k): the value rounded to k decimals (halves away
\* from zero); "NaN" and "Infinity" for the specials.
toFixed(x, k) ==
  IF ~IsFinite(x) THEN x
  ELSE Norm(Sign(x.n) * ((2 * Abs(x.n) * Pow10(k) + x.d) \div (2 * x.d)), Pow10(k))

RECURSIVE NumSumTo(_, _)
NumSumTo(s, k) == IF k = 0 THEN Num(0) ELSE NumAdd(NumSumTo(s, k - 1), s[k])

\* The sum of a sequence of numbers, left to right.
NumSum(s) == NumSumTo(s, Len(s))

(***************************************************************************)
(* JavaScript strings                                                      *)
(***************************************************************************)
Undefined == <<"undefined">>

Empty == <<>>

\* !x for a field: undefined and the empty string are falsy.
Falsy(t) == t = Undefined \/ t = Empty

Digits == {"0", "1", "2", "3", "4", "5", "6", "7", "8", "9"}

DigitVal(c) ==
  CASE c = "0" -> 0 [] c = "1" -> 1 [] c = "2" -> 2 [] c = "3" -> 3 [] c = "4" -> 4
    [] c = "5" -> 5 [] c = "6" -> 6 [] c = "7" -> 7 [] c = "8" -> 8 [] c = "9" -> 9

IsSpace(c) == c \in {" ", "\t"}

\* The number of leading characters of s that are digits.
DigitPrefix(s) ==
  CHOOSE k \in 0..Len(s) :
    /\ \A i \in 1..k : s[i] \in Digits
    /\ (k = Len(s) \/ s[k + 1] \notin Digits)

RECURSIVE DigitsValue(_)
DigitsValue(s) ==
  IF s = <<>> THEN 0
  ELSE 10 * DigitsValue(SubSeq(s, 1, Len(s) - 1)) + DigitVal(s[Len(s)])

RECURSIVE TrimLeft(_)
TrimLeft(s) == IF s # <<>> /\ IsSpace(s[1]) THEN TrimLeft(Tail(s)) ELSE s

RECURSIVE TrimRight(_)
TrimRight(s) ==
  IF s # <<>> /\ IsSpace(s[Len(s)]) THEN TrimRight(SubSeq(s, 1, Len(s) - 1)) ELSE s

\* String.prototype.trim
trim(s) == TrimRight(TrimLeft(s))

\* String.prototype.split(sep) for a one-character separator.
RECURSIVE split(_, _)
split(s, sep) ==
  IF \A i \in 1..Len(s) : s[i] # sep THEN <<s>>
  ELSE LET k == CHOOSE i \in 1..Len(s) : s[i] = sep /\ \A j \in 1..(i - 1) : s[j] # sep
       IN  <<SubSeq(s, 1, k - 1)>> \o split(SubSeq(s, k + 1, Len(s)), sep)

\* String.prototype.includes
includes(s, sub) ==
  \E i \in 1..(Len(s) - Len(sub) + 1) : SubSeq(s, i, i + Len(sub) - 1) = sub

\* parseInt(t), radix 10: leading white space, an optional sign, then the
\* longest run of digits; NaN when there is none.  undefined parses as the
\* text "undefined", which is NaN.
parseInt(t) ==
  IF t = Undefined THEN NaN
  ELSE LET s    == TrimLeft(t)
           neg  == s # <<>> /\ s[1] = "-"
           body == IF s # <<>> /\ s[1] \in {"-", "+"} THEN Tail(s) ELSE s
           k    == DigitPrefix(body)
       IN  IF k = 0 THEN NaN
           ELSE Num((IF neg THEN -1 ELSE 1) * DigitsValue(SubSeq(body, 1, k)))

InfinityText == <<"I", "n", "f", "i", "n", "i", "t", "y">>

\* parseFloat(t): as parseInt, with an optional fraction after a '.'; the
\* text Infinity (signed or not) parses to the infinity.
parseFloat(t) ==
  IF t = Undefined THEN NaN
  ELSE LET s    == TrimLeft(t)
           neg  == s # <<>> /\ s[1] = "-"
           body == IF s # <<>> /\ s[1] \in {"-", "+"} THEN Tail(s) ELSE s
           k    == DigitPrefix(body)
           rest == SubSeq(body, k + 1, Len(body))
           frac == IF rest # <<>> /\ rest[1] = "." THEN Tail(rest) ELSE <<>>
           f    == DigitPrefix(frac)
       IN  IF Len(body) >= 8 /\ SubSeq(body, 1, 8) = InfinityText
           THEN [n |-> IF neg THEN -1 ELSE 1, d |-> 0]
           ELSE IF k + f = 0 THEN NaN
           ELSE Norm((IF neg THEN -1 ELSE 1)
                       * (DigitsValue(SubSeq(body, 1, k)) * Pow10(f)
                            + DigitsValue(SubSeq(frac, 1, f))),
                     Pow10(f))

(***************************************************************************)
(* MetricsCalculator: the duration parser                                  *)
(***************************************************************************)
\* The three parts added up as minutes.
MinutesOf(hours, minutes, seconds) ==
  NumAdd(NumAdd(NumMul(hours, Num(60)), minutes), NumDiv(seconds, Num(60)))

\* A parser without the test on the number of parts.
parseTimeToMinutesAnyLength(timeStr) ==
  IF Falsy(timeStr) \/ trim(timeStr) = Empty THEN Num(0)
  ELSE LET parts == split(trim(timeStr), ":")
           part(i) == IF i <= Len(parts) THEN parts[i] ELSE Undefined
       IN  MinutesOf(OrZero(parseInt(part(1))), OrZero(parseInt(part(2))),
                     OrZero(parseFloat(part(3))))

\* A parser that gives up on the whole text when one part is not a number.
parseTimeToMinutesAborting(timeStr) ==
  IF Falsy(timeStr) \/ trim(timeStr) = Empty THEN Num(0)
  ELSE LET parts == split(trim(timeStr), ":")
       IN  IF Len(parts) = 3 /\ ~IsNaN(parseInt(parts[1]))
              /\ ~IsNaN(parseInt(parts[2])) /\ ~IsNaN(parseFloat(parts[3]))
           THEN MinutesOf(parseInt(parts[1]), parseInt(parts[2]), parseFloat(parts[3]))
           ELSE Num(0)

parseTimeToMinutes(timeStr) ==
  IF Falsy(timeStr) \/ trim(timeStr) = Empty THEN Num(0)
  ELSE LET parts == split(trim(timeStr), ":")
       IN  IF Len(parts) = 3
           THEN LET hours   == OrZero(parseInt(parts[1]))
                    minutes == OrZero(parseInt(parts[2]))
                    seconds == OrZero(parseFloat(parts[3]))
                IN  NumAdd(NumAdd(NumMul(hours, Num(60)), minutes),
                           NumDiv(seconds, Num(60)))
           ELSE Num(0)

parseTimeToSeconds(timeStr) == NumMul(parseTimeToMinutes(timeStr), Num(60))

\* x || '0:00:00.000'
ZeroTime == <<"0", ":", "0", "0", ":", "0", "0", ".", "0", "0", "0">>

OrZeroTime(t) == IF Falsy(t) THEN ZeroTime ELSE t

(***************************************************************************)
(* Texts the code compares against                                         *)
(***************************************************************************)
Inbound == <<"I", "n", "b", "o", "u", "n", "d">>

Outbound == <<"O", "u", "t", "b", "o", "u", "n", "d">>

YES == <<"Y", "E", "S">>

NO == <<"N", "O">>

Template == <<"T", "e", "m", "p", "l", "a", "t", "e">>

(***************************************************************************)
(* MetricsCalculator.calculateDetailedMetrics, step 1: the row filters     *)
(***************************************************************************)
hasAnsweredNonNegative(agent) ==
  /\ ~Falsy(agent.Answered)
  /\ ~IsNaN(parseInt(agent.Answered))
  /\ ~NumGt(Num(0), parseInt(agent.Answered))

hasAnswered(agent) ==
  /\ ~Falsy(agent.Answered)
  /\ ~IsNaN(parseInt(agent.Answered))
  /\ NumGt(parseInt(agent.Answered), Num(0))

\* !agent['Agent Name']?.includes('Template')
notTemplate(agent) ==
  agent.AgentName = Undefined \/ ~includes(agent.AgentName, Template)

PerformanceRowKept(agent) == hasAnswered(agent) /\ notTemplate(agent)

validAgentPerformance(agentPerformance) ==
  SelectSeq(agentPerformance, PerformanceRowKept)

hasLoggedTime(agent) ==
  ~Falsy(agent.LoggedIn) /\ trim(agent.LoggedIn) # Empty

StatusRowKept(agent) == hasLoggedTime(agent) /\ notTemplate(agent)

validAgentStatus(agentStatus) == SelectSeq(agentStatus, StatusRowKept)

InteractionRowKept(interaction) ==
  ~Falsy(interaction.InitialDirection) /\ ~Falsy(interaction.Queue)

validInteractions(trainingInteractions) ==
  SelectSeq(trainingInteractions, InteractionRowKept)

(***************************************************************************)
(* Step 2: the populations and the reconciliation of the two call totals   *)
(***************************************************************************)
IsInbound(call) == call.InitialDirection = Inbound

IsAnswered(call) == call.Abandoned = NO

IsAbandoned(call) == call.Abandoned = YES

inboundCalls(valid) == SelectSeq(valid, IsInbound)

\* reduce((sum, agent) => sum + (parseInt(agent.Answered) || 0), 0)
agentPerformanceTotal(validPerf) ==
  NumSum([i \in 1..Len(validPerf) |-> OrZero(parseInt(validPerf[i].Answered))])

interactionsAnsweredTotal(valid) == Num(Len(SelectSeq(valid, IsAnswered)))

callDiscrepancy(totalA, totalB) == MathAbs(NumSub(totalA, totalB))

discrepancyPercent(totalA, totalB) ==
  IF NumGt(totalA, Num(0))
  THEN NumMul(NumDiv(callDiscrepancy(totalA, totalB), totalA), Num(100))
  ELSE Num(0)

dataQualityFlag(percent) ==
  IF NumGt(percent, Num(5)) THEN "CRITICAL DISCREPANCY" ELSE "Acceptable variance"

recommendedAction(percent) ==
  IF NumGt(percent, Num(30)) THEN "URGENT: Investigate missing agent data"
  ELSE IF NumGt(percent, Num(10)) THEN "Review data export timeframes"
  ELSE "Monitor trends"

reconciliationResultLoose(percent) ==
  IF NumGt(percent, Num(30)) THEN "URGENT DATA ISSUE"
  ELSE IF NumLe(Num(5), percent) THEN "DATA INTEGRITY ISSUE"
  ELSE "acceptable"

\* The text of dataReconciliation.result without its percentage.
reconciliationResult(percent) ==
  IF NumGt(percent, Num(30)) THEN "URGENT DATA ISSUE"
  ELSE IF NumGt(percent, Num(5)) THEN "DATA INTEGRITY ISSUE"
  ELSE "acceptable"

agentCoverage(validPerf, validStatus, discrepancy) ==
  [performanceAgents |-> Num(Len(validPerf)),
   statusAgents      |-> Num(Len(validStatus)),
   missingAgents     |-> Num(Len(validStatus) - Len(validPerf)),
   possibleCallsPerMissingAgent |->
     MathRound(NumDiv(discrepancy, Num(Len(validStatus) - Len(validPerf))))]

dataReconciliation(validPerf, validStatus, valid) ==
  LET totalA   == agentPerformanceTotal(validPerf)
      totalB   == interactionsAnsweredTotal(valid)
      diff     == callDiscrepancy(totalA, totalB)
      percent  == discrepancyPercent(totalA, totalB)
  IN  [formula |-> "Compare call totals across data sources to identify discrepancies",
       values  |->
         [agentPerformanceCallTotal |-> totalA,
          interactionsAnsweredTotal |-> totalB,
          callDiscrepancy           |-> diff,
          discrepancyPercent        |-> toFixed(percent, 2),
          dataQualityFlag           |-> dataQualityFlag(percent),
          totalInteractions         |-> Num(Len(valid)),
          inboundInteractions       |-> Num(Len(inboundCalls(valid))),
          outboundInteractions      |-> Num(Len(valid) - Len(inboundCalls(valid))),
          agentCoverage             |-> agentCoverage(validPerf, validStatus, diff),
          recommendedAction         |-> recommendedAction(percent)],
       calculation |-> <<totalA, totalB, diff, toFixed(percent, 2)>>,
       result  |-> [text |-> reconciliationResult(percent), percent |-> toFixed(percent, 2)]]

dataFiltering(agentPerformance, agentStatus, trainingInteractions) ==
  [formula |-> "Filter out templates and agents with no activity",
   values  |->
     [totalAgentPerformanceRows |-> Num(Len(agentPerformance)),
      validAgentPerformanceRows |-> Num(Len(validAgentPerformance(agentPerformance))),
      totalAgentStatusRows      |-> Num(Len(agentStatus)),
      validAgentStatusRows      |-> Num(Len(validAgentStatus(agentStatus))),
      totalInteractions         |-> Num(Len(trainingInteractions)),
      validInteractions         |-> Num(Len(validInteractions(trainingInteractions)))],
   calculation |-> "Removed template rows and empty data",
   result  |-> <<Num(Len(validAgentPerformance(agentPerformance))),
                 Num(Len(validAgentStatus(agentStatus))),
                 Num(Len(validInteractions(trainingInteractions)))>>]

(***************************************************************************)
(* Step 3: Total Calls (the interaction table is the source)               *)
(***************************************************************************)
totalCallsFromAgentPerformance(validPerf) ==
  NumSum([i \in 1..Len(validPerf) |-> OrZero(parseInt(validPerf[i].Answered))])

\* MetricsCalculator declares no field, and calculateDetailedMetrics works on
\* locals only: a calculator carries no state from one call to the next.
\* returned is the history of the calls made so far: for each call the
\* calculator it was made on, the tables passed and the report returned.
VARIABLE returned

\* A count kept across calls: every earlier call adds to the next result.
totalCallsAccumulated(valid) ==
  Num(Len(SelectSeq(valid, IsAnswered)) + Cardinality(returned))

totalCallsFromInteractions(valid) == Num(Len(SelectSeq(valid, IsAnswered)))

totalCallsDetails(validPerf, valid) ==
  LET totalCalls == totalCallsFromInteractions(valid)
  IN  [formula |-> "Count of answered interactions (authoritative source for all KPIs)",
       values  |->
         [totalInteractions        |-> Num(Len(valid)),
          answeredInteractions     |-> totalCalls,
          abandonedInteractions    |-> NumSub(Num(Len(valid)), totalCalls),
          agentPerformanceTotal    |-> totalCallsFromAgentPerformance(validPerf),
          discrepancyFromAgentData |->
            NumSub(totalCalls, totalCallsFromAgentPerformance(validPerf)),
          dataSourceUsed           |-> "Training Interactions (complete dataset)"],
       calculation |-> <<totalCalls, Num(Len(valid))>>,
       result  |-> totalCalls]

(***************************************************************************)
(* Step 4: Transfer Rate                                                   *)
(***************************************************************************)
totalTransferred(validPerf) ==
  NumSum([i \in 1..Len(validPerf) |-> OrZero(parseInt(validPerf[i].Transferred))])

agentPerformanceTransferRate(validPerf) ==
  IF NumGt(totalCallsFromAgentPerformance(validPerf), Num(0))
  THEN NumMul(NumDiv(totalTransferred(validPerf),
                     totalCallsFromAgentPerformance(validPerf)), Num(100))
  ELSE Num(0)

mixedSourceTransferRate(validPerf, valid) ==
  IF NumGt(totalCallsFromInteractions(valid), Num(0))
  THEN NumMul(NumDiv(totalTransferred(validPerf),
                     totalCallsFromInteractions(valid)), Num(100))
  ELSE Num(0)

transferRateMixed(validPerf, valid) == mixedSourceTransferRate(validPerf, valid)

\* const transferRate = agentPerformanceTransferRate
transferRate(validPerf, valid) == agentPerformanceTransferRate(validPerf)

transferRateDetails(validPerf, valid) ==
  LET perfRate  == agentPerformanceTransferRate(validPerf)
      mixedRate == mixedSourceTransferRate(validPerf, valid)
      reported  == transferRate(validPerf, valid)
  IN  [formula |-> "(Total Calls Transferred / Total Calls Answered) x 100",
       values  |->
         [totalTransferred     |-> totalTransferred(validPerf),
          reportedRate         |-> reported,
          rateCalculationBasis |-> "Agent Performance (internally consistent)",
          agentPerformanceRate |-> perfRate,
          mixedSourceRate      |-> mixedRate,
          potentialUnderstatement |->
            toFixed(NumMul(NumDiv(NumSub(perfRate, mixedRate), perfRate), Num(100)), 1),
          businessImpact |->
            [currentReported |-> toFixed(reported, 2),
             ifMixedSources  |-> toFixed(mixedRate, 2),
             differenceInTransfers |->
               MathRound(NumMul(NumDiv(NumSub(perfRate, mixedRate), Num(100)),
                                totalTransferred(validPerf))),
             riskAssessment  |->
               "HIGH - Transfer rate accuracy depends on data coverage completeness"],
          recommendedAction |-> "URGENT: Verify transfer data exists for all calls"],
       calculation |-> <<totalTransferred(validPerf),
                         totalCallsFromAgentPerformance(validPerf),
                         toFixed(reported, 2),
                         totalCallsFromInteractions(valid),
                         toFixed(mixedRate, 2)>>,
       result  |-> [reported |-> toFixed(reported, 2), mixed |-> toFixed(mixedRate, 2)]]

(***************************************************************************)
(* Step 5: Abandonment Rate                                                *)
(***************************************************************************)
abandonedCalls(inbound) == SelectSeq(inbound, IsAbandoned)

abandonmentRateAllRows(valid) ==
  IF Len(valid) > 0
  THEN NumMul(NumDiv(Num(Len(SelectSeq(valid, IsAbandoned))), Num(Len(valid))), Num(100))
  ELSE Num(0)

abandonmentRateNoGuard(valid) ==
  NumMul(NumDiv(Num(Len(abandonedCalls(inboundCalls(valid)))),
                Num(Len(inboundCalls(valid)))), Num(100))

abandonmentRate(valid) ==
  IF Len(inboundCalls(valid)) > 0
  THEN NumMul(NumDiv(Num(Len(abandonedCalls(inboundCalls(valid)))),
                     Num(Len(inboundCalls(valid)))), Num(100))
  ELSE Num(0)

abandonmentRateDetails(valid) ==
  LET inbound   == inboundCalls(valid)
      abandoned == abandonedCalls(inbound)
  IN  [formula |-> "(Abandoned Inbound Calls / Total Inbound Calls) x 100 [INBOUND ONLY]",
       values  |->
         [totalInteractions     |-> Num(Len(valid)),
          totalInboundCalls     |-> Num(Len(inbound)),
          outboundCallsExcluded |-> Num(Len(valid) - Len(inbound)),
          abandonedInboundCalls |-> Num(Len(abandoned)),
          answeredInboundCalls  |-> Num(Len(inbound) - Len(abandoned)),
          percentage            |-> abandonmentRate(valid)],
       calculation |-> <<Num(Len(abandoned)), Num(Len(inbound)),
                         toFixed(abandonmentRate(valid), 2)>>,
       result  |-> abandonmentRate(valid)]

(***************************************************************************)
(* Steps 6 and 7: Average Speed of Answer, Average Handle Time             *)
(***************************************************************************)
answeredInbound(valid) == SelectSeq(inboundCalls(valid), IsAnswered)

FirstN(s, k) == SubSeq(s, 1, IF Len(s) < k THEN Len(s) ELSE k)

queueTimes(valid) ==
  LET answered == answeredInbound(valid)
  IN  [i \in 1..Len(answered) |-> parseTimeToMinutes(OrZeroTime(answered[i].TotalQueue))]

totalQueueTime(valid) == NumSum(queueTimes(valid))

\* An average over every inbound row, abandoned or not.
avgSpeedOfAnswerAllInbound(valid) ==
  LET inbound == inboundCalls(valid)
  IN  IF Len(inbound) > 0
      THEN NumDiv(NumSum([i \in 1..Len(inbound) |->
                            parseTimeToMinutes(OrZeroTime(inbound[i].TotalQueue))]),
                  Num(Len(inbound)))
      ELSE Num(0)

\* The queue time of the first answered inbound row instead of the average.
avgSpeedOfAnswerOfFirst(valid) ==
  IF Len(answeredInbound(valid)) > 0 THEN queueTimes(valid)[1] ELSE Num(0)

avgSpeedOfAnswer(valid) ==
  IF Len(answeredInbound(valid)) > 0
  THEN NumDiv(totalQueueTime(valid), Num(Len(answeredInbound(valid))))
  ELSE Num(0)

avgSpeedOfAnswerDetails(valid) ==
  LET count   == Num(Len(answeredInbound(valid)))
      total   == totalQueueTime(valid)
      average == avgSpeedOfAnswer(valid)
  IN  [formula |-> "Sum(Queue Wait Time for answered calls) / Number of Answered Calls",
       values  |->
         [answeredInboundCalls  |-> count,
          totalQueueTimeMinutes |-> total,
          sampleQueueTimes      |-> FirstN(FirstN(queueTimes(valid), 10), 5),
          averageMinutes        |-> average],
       calculation |-> <<toFixed(total, 2), count, toFixed(average, 2)>>,
       result  |-> average]

combinedTime(call) ==
  NumAdd(parseTimeToMinutes(OrZeroTime(call.TotalHandle)),
         parseTimeToMinutes(OrZeroTime(call.TotalACW)))

handleTimes(valid) ==
  LET answered == answeredInbound(valid)
  IN  [i \in 1..Len(answered) |-> combinedTime(answered[i])]

totalHandleTime(valid) == NumSum(handleTimes(valid))

\* An average of the handle times alone, without the after-call work.
avgHandleTimeNoACW(valid) ==
  LET answered == answeredInbound(valid)
  IN  IF Len(answered) > 0
      THEN NumDiv(NumSum([i \in 1..Len(answered) |->
                            parseTimeToMinutes(OrZeroTime(answered[i].TotalHandle))]),
                  Num(Len(answered)))
      ELSE Num(0)

avgHandleTime(valid) ==
  IF Len(answeredInbound(valid)) > 0
  THEN NumDiv(totalHandleTime(valid), Num(Len(answeredInbound(valid))))
  ELSE Num(0)

avgHandleTimeDetails(valid) ==
  LET count   == Num(Len(answeredInbound(valid)))
      total   == totalHandleTime(valid)
      average == avgHandleTime(valid)
  IN  [formula |-> "Sum(Talk Time + Hold Time + ACW Time) / Number of Handled Calls",
       values  |->
         [handledCalls           |-> count,
          totalHandleTimeMinutes |-> total,
          sampleHandleTimes      |-> FirstN(FirstN(handleTimes(valid), 10), 5),
          averageMinutes         |-> average],
       calculation |-> <<toFixed(total, 2), count, toFixed(average, 2)>>,
       result  |-> average]

(***************************************************************************)
(* Step 8: Utilization and Shrinkage                                       *)
(***************************************************************************)
StatusField(validStatus, f) ==
  NumSum([i \in 1..Len(validStatus) |-> parseTimeToMinutes(OrZeroTime(validStatus[i][f]))])

totalLoggedTime(validStatus) == StatusField(validStatus, "LoggedIn")

totalOnQueueTime(validStatus) == StatusField(validStatus, "OnQueue")

totalShrinkageTime(validStatus) ==
  NumAdd(NumAdd(NumAdd(NumAdd(StatusField(validStatus, "Break"),
                              StatusField(validStatus, "Meal")),
                       StatusField(validStatus, "Away")),
                StatusField(validStatus, "NotResponding")),
         StatusField(validStatus, "OffQueue"))

Percent(part, whole) ==
  IF NumGt(whole, Num(0)) THEN NumMul(NumDiv(part, whole), Num(100)) ELSE Num(0)

agentShrinkageTime(agent) ==
  NumAdd(NumAdd(NumAdd(NumAdd(parseTimeToMinutes(OrZeroTime(agent.Break)),
                              parseTimeToMinutes(OrZeroTime(agent.Meal))),
                       parseTimeToMinutes(OrZeroTime(agent.Away))),
                parseTimeToMinutes(OrZeroTime(agent.NotResponding))),
         parseTimeToMinutes(OrZeroTime(agent.OffQueue)))

utilizationSamples(validStatus) ==
  [i \in 1..Len(FirstN(validStatus, 5)) |->
     LET agent      == validStatus[i]
         loggedTime == parseTimeToMinutes(OrZeroTime(agent.LoggedIn))
         onQueue    == parseTimeToMinutes(OrZeroTime(agent.OnQueue))
     IN  [agent          |-> agent.AgentName,
          loggedMinutes  |-> toFixed(loggedTime, 1),
          onQueueMinutes |-> toFixed(onQueue, 1),
          utilization    |-> toFixed(Percent(onQueue, loggedTime), 1)]]

shrinkageSamples(validStatus) ==
  [i \in 1..Len(FirstN(validStatus, 5)) |->
     LET agent      == validStatus[i]
         loggedTime == parseTimeToMinutes(OrZeroTime(agent.LoggedIn))
     IN  [agent     |-> agent.AgentName,
          shrinkage |-> toFixed(Percent(agentShrinkageTime(agent), loggedTime), 1),
          breakTime |-> toFixed(parseTimeToMinutes(OrZeroTime(agent.Break)), 1),
          mealTime  |-> toFixed(parseTimeToMinutes(OrZeroTime(agent.Meal)), 1),
          awayTime  |-> toFixed(parseTimeToMinutes(OrZeroTime(agent.Away)), 1)]]

allAnsweredCalls(valid) == SelectSeq(valid, IsAnswered)

totalProductiveTime(valid) ==
  LET answered == allAnsweredCalls(valid)
  IN  NumSum([i \in 1..Len(answered) |-> combinedTime(answered[i])])

\* A utilization over the answered inbound rows only.
productiveUtilizationInboundOnly(validStatus, valid) ==
  Percent(totalHandleTime(valid), totalLoggedTime(validStatus))

productiveUtilization(validStatus, valid) ==
  Percent(totalProductiveTime(valid), totalLoggedTime(validStatus))

onQueueUtilization(validStatus) ==
  Percent(totalOnQueueTime(validStatus), totalLoggedTime(validStatus))

shrinkage(validStatus) ==
  Percent(totalShrinkageTime(validStatus), totalLoggedTime(validStatus))

productiveUtilizationDetails(validStatus, valid) ==
  LET productive == totalProductiveTime(valid)
      logged     == totalLoggedTime(validStatus)
      percentage == Percent(productive, logged)
  IN  [formula |->
         "Sum(Talk + Hold + ACW Time from all interactions) / Sum(Agent Login Time) x 100",
       values  |->
         [totalProductiveTimeMinutes |-> toFixed(productive, 1),
          totalLoggedTimeMinutes     |-> toFixed(logged, 1),
          productiveCallsAnalyzed    |-> Num(Len(allAnsweredCalls(valid))),
          percentage                 |-> percentage],
       calculation |-> <<toFixed(productive, 1), toFixed(logged, 1), toFixed(percentage, 2)>>,
       result  |-> percentage]

onQueueUtilizationDetails(validStatus) ==
  [formula |-> "Sum(On-Queue Time) / Sum(Agent Login Time) x 100",
   values  |->
     [totalOnQueueTimeMinutes |-> toFixed(totalOnQueueTime(validStatus), 1),
      totalLoggedTimeMinutes  |-> toFixed(totalLoggedTime(validStatus), 1),
      utilizationSamples      |-> utilizationSamples(validStatus),
      percentage              |-> onQueueUtilization(validStatus)],
   calculation |-> <<toFixed(totalOnQueueTime(validStatus), 1),
                     toFixed(totalLoggedTime(validStatus), 1),
                     toFixed(onQueueUtilization(validStatus), 2)>>,
   result  |-> onQueueUtilization(validStatus)]

shrinkageDetails(validStatus) ==
  [formula |-> "(Break + Meal + Away + Not Responding + Off Queue) / Logged In Time x 100",
   values  |->
     [totalBreakTime         |-> toFixed(StatusField(validStatus, "Break"), 1),
      totalMealTime          |-> toFixed(StatusField(validStatus, "Meal"), 1),
      totalAwayTime          |-> toFixed(StatusField(validStatus, "Away"), 1),
      totalNotRespondingTime |-> toFixed(StatusField(validStatus, "NotResponding"), 1),
      totalOffQueueTime      |-> toFixed(StatusField(validStatus, "OffQueue"), 1),
      totalShrinkageTime     |-> toFixed(totalShrinkageTime(validStatus), 1),
      totalLoggedTime        |-> toFixed(totalLoggedTime(validStatus), 1),
      agentSamples           |-> shrinkageSamples(validStatus),
      percentage             |-> shrinkage(validStatus)],
   calculation |-> <<toFixed(totalShrinkageTime(validStatus), 1),
                     toFixed(totalLoggedTime(validStatus), 1),
                     toFixed(shrinkage(validStatus), 2)>>,
   result  |-> shrinkage(validStatus)]

(***************************************************************************)
(* calculateDetailedMetrics: the report.  The console output and the       *)
(* comparison with the hard-coded baseline write to the console only and   *)
(* leave no trace in the returned value.                                   *)
(***************************************************************************)
calculateDetailedMetrics(agentPerformance, agentStatus, trainingInteractions, timeSummary) ==
  LET validPerf   == validAgentPerformance(agentPerformance)
      validStatus == validAgentStatus(agentStatus)
      valid       == validInteractions(trainingInteractions)
  IN  [totalCalls            |-> totalCallsFromInteractions(valid),
       transferRate          |-> transferRate(validPerf, valid),
       productiveUtilization |-> productiveUtilization(validStatus, valid),
       onQueueUtilization    |-> onQueueUtilization(validStatus),
       avgSpeedOfAnswer      |-> avgSpeedOfAnswer(valid),
       abandonmentRate       |-> abandonmentRate(valid),
       avgHandleTime         |-> avgHandleTime(valid),
       shrinkage             |-> shrinkage(validStatus),
       calculationDetails    |->
         [dataReconciliation    |-> dataReconciliation(validPerf, validStatus, valid),
          dataFiltering         |->
            dataFiltering(agentPerformance, agentStatus, trainingInteractions),
          totalCalls            |-> totalCallsDetails(validPerf, valid),
          transferRate          |-> transferRateDetails(validPerf, valid),
          abandonmentRate       |-> abandonmentRateDetails(valid),
          avgSpeedOfAnswer      |-> avgSpeedOfAnswerDetails(valid),
          avgHandleTime         |-> avgHandleTimeDetails(valid),
          productiveUtilization |-> productiveUtilizationDetails(validStatus, valid),
          onQueueUtilization    |-> onQueueUtilizationDetails(validStatus),
          shrinkage             |-> shrinkageDetails(validStatus)]]

(***************************************************************************)
(* Where calculateDetailedMetrics can raise: a method called on a field    *)
(* that is missing raises a TypeError.  Every other operation on a field   *)
(* (parseInt, parseFloat, isNaN, ===, ||, the arithmetic) is total.        *)
(***************************************************************************)
CallOnUndefined(receiver) == receiver = Undefined

\* agent['Agent Name']?.includes('Template'): called only on a present name
notTemplateThrows(agent) ==
  agent.AgentName # Undefined /\ CallOnUndefined(agent.AgentName)

\* A trim() on whatever the field holds.
hasLoggedTimeThrowsUnguarded(agent) == CallOnUndefined(agent.LoggedIn)

\* agent['Logged In'] && agent['Logged In'].trim() !== ''
hasLoggedTimeThrows(agent) ==
  ~Falsy(agent.LoggedIn) /\ CallOnUndefined(agent.LoggedIn)

\* if (!timeStr || timeStr.trim() === '') return 0; ... timeStr.trim()
parseTimeToMinutesThrows(timeStr) ==
  ~Falsy(timeStr) /\ CallOnUndefined(timeStr)

calculateDetailedMetricsThrows(agentPerformance, agentStatus, trainingInteractions) ==
  LET validStatus == validAgentStatus(agentStatus)
      valid       == validInteractions(trainingInteractions)
      answered    == allAnsweredCalls(valid)
  IN  \/ \E i \in DOMAIN agentPerformance : notTemplateThrows(agentPerformance[i])
      \/ \E i \in DOMAIN agentStatus :
           hasLoggedTimeThrows(agentStatus[i]) \/ notTemplateThrows(agentStatus[i])
      \/ \E i \in DOMAIN answered :
           \E f \in {"TotalQueue", "TotalHandle", "TotalACW"} :
             parseTimeToMinutesThrows(OrZeroTime(answered[i][f]))
      \/ \E i \in DOMAIN validStatus :
           \E f \in {"LoggedIn", "OnQueue", "Break", "Meal", "Away", "NotResponding",
                     "OffQueue"} :
             parseTimeToMinutesThrows(OrZeroTime(validStatus[i][f]))

(***************************************************************************)
(* Dashboard: the metrics computed inline by the component (its own row    *)
(* filters and its own duration parser)                                    *)
(***************************************************************************)
\* A parser of its own unit: the seconds of the text.
DashboardParseTimeToSeconds(timeStr) ==
  IF Falsy(timeStr) \/ timeStr = ZeroTime THEN Num(0)
  ELSE LET parts == split(timeStr, ":")
       IN  IF Len(parts) = 3
           THEN NumMul(MinutesOf(OrZero(parseInt(parts[1])), OrZero(parseInt(parts[2])),
                                 OrZero(parseFloat(parts[3]))), Num(60))
           ELSE Num(0)

DashboardParseTimeToMinutes(timeStr) ==
  IF Falsy(timeStr) \/ timeStr = ZeroTime THEN Num(0)
  ELSE LET parts == split(timeStr, ":")
       IN  IF Len(parts) = 3
           THEN NumAdd(NumAdd(NumMul(OrZero(parseInt(parts[1])), Num(60)),
                              OrZero(parseInt(parts[2]))),
                       NumDiv(OrZero(parseFloat(parts[3])), Num(60)))
           ELSE Num(0)

DashboardStatusRowKept(agent) == ~Falsy(agent.LoggedIn) /\ agent.LoggedIn # ZeroTime

DashboardPerformanceRowKept(agent) ==
  ~Falsy(agent.Answered) /\ ~IsNaN(parseInt(agent.Answered))

DashboardInteractionRowKept(interaction) == ~Falsy(interaction.InitialDirection)

DashboardStatusSum(validStatus, f) ==
  NumSum([i \in 1..Len(validStatus) |->
            DashboardParseTimeToMinutes(OrZeroTime(validStatus[i][f]))])

Unknown == <<"U", "n", "k", "n", "o", "w", "n">>

\* Array.prototype.sort with (a, b) => key(b) - key(a): stable, the greater
\* key first; keys[i] is the key of s[i].
RECURSIVE sortDescending(_, _)
sortDescending(s, keys) ==
  IF Len(s) <= 1 THEN s
  ELSE LET rest     == sortDescending(Tail(s), Tail(keys))
           restKeys == sortDescending(Tail(keys), Tail(keys))
           k        == Cardinality({i \in DOMAIN restKeys : NumGt(restKeys[i], Head(keys))})
       IN  SubSeq(rest, 1, k) \o <<Head(s)>> \o SubSeq(rest, k + 1, Len(rest))

\* loggedTime > 0 ? (onQueueTime / loggedTime) * 100 : 0
DashboardUtilizationOf(agent) ==
  LET loggedTime  == DashboardParseTimeToMinutes(OrZeroTime(agent.LoggedIn))
      onQueueTime == DashboardParseTimeToMinutes(OrZeroTime(agent.OnQueue))
  IN  IF NumGt(loggedTime, Num(0))
      THEN NumMul(NumDiv(onQueueTime, loggedTime), Num(100)) ELSE Num(0)

\* The per-agent figures; the rows have no 'User Name' column.
agentUtilization(validStatus) ==
  LET mapped   == [i \in DOMAIN validStatus |->
                     [name        |-> IF Falsy(validStatus[i].AgentName) THEN Unknown
                                      ELSE validStatus[i].AgentName,
                      utilization |-> DashboardUtilizationOf(validStatus[i])]]
      positive == SelectSeq(mapped, LAMBDA a : NumGt(a.utilization, Num(0)))
  IN  sortDescending(positive, [i \in DOMAIN positive |-> positive[i].utilization])

\* The seven KPI figures and the per-agent figures of the Metrics value; the
\* queue and performer rankings are built the same way, from arrays of their
\* own, and are left out.
DashboardMetrics(agentPerformance, agentStatus, trainingInteractions) ==
  LET validStatus == SelectSeq(agentStatus, DashboardStatusRowKept)
      validPerf   == SelectSeq(agentPerformance, DashboardPerformanceRowKept)
      valid       == SelectSeq(trainingInteractions, DashboardInteractionRowKept)
      totalCalls  == NumSum([i \in 1..Len(validPerf) |->
                               OrZero(parseInt(validPerf[i].Answered))])
      transferred == NumSum([i \in 1..Len(validPerf) |->
                               OrZero(parseInt(validPerf[i].Transferred))])
      inbound     == SelectSeq(valid, IsInbound)
      abandoned   == SelectSeq(inbound, IsAbandoned)
      answered    == SelectSeq(inbound, IsAnswered)
      allAnswered == SelectSeq(valid, IsAnswered)
      queueTime   == NumSum([i \in 1..Len(answered) |->
                       DashboardParseTimeToMinutes(OrZeroTime(answered[i].TotalQueue))])
      handleTime  == NumSum([i \in 1..Len(answered) |->
                       NumAdd(DashboardParseTimeToMinutes(OrZeroTime(answered[i].TotalHandle)),
                              DashboardParseTimeToMinutes(OrZeroTime(answered[i].TotalACW)))])
      productive  == NumSum([i \in 1..Len(allAnswered) |->
                       NumAdd(DashboardParseTimeToMinutes(OrZeroTime(allAnswered[i].TotalHandle)),
                              DashboardParseTimeToMinutes(OrZeroTime(allAnswered[i].TotalACW)))])
      logged      == DashboardStatusSum(validStatus, "LoggedIn")
      onQueue     == DashboardStatusSum(validStatus, "OnQueue")
  IN  [totalCalls            |-> totalCalls,
       transferRate          |-> Percent(transferred, totalCalls),
       abandonmentRate       |-> IF Len(inbound) > 0
                                 THEN NumMul(NumDiv(Num(Len(abandoned)), Num(Len(inbound))),
                                             Num(100))
                                 ELSE Num(0),
       avgSpeedOfAnswer      |-> IF Len(answered) > 0
                                 THEN NumDiv(queueTime, Num(Len(answered))) ELSE Num(0),
       avgHandleTime         |-> IF Len(answered) > 0
                                 THEN NumDiv(handleTime, Num(Len(answered))) ELSE Num(0),
       productiveUtilization |-> Percent(productive, logged),
       onQueueUtilization    |-> Percent(onQueue, logged),
       agentUtilization      |-> agentUtilization(validStatus)]

(***************************************************************************)
(* What a computation leaves in the tables it was given.  The tables are   *)
(* arrays shared with the caller: a change made in place would be seen     *)
(* after the call.                                                         *)
(***************************************************************************)
\* calculateDetailedMetrics calls filter, reduce, forEach and slice on its
\* arguments and reads the fields of the rows: nothing is assigned.
calculateDetailedMetricsLeaves(tables) == tables

\* The agent-status table sorted where it stands, the busiest agent first.
DashboardMetricsSortsInPlace(tables) ==
  LET status == tables.agentStatus
  IN  [tables EXCEPT !.agentStatus =
         sortDescending(status, [i \in DOMAIN status |-> DashboardUtilizationOf(status[i])])]

\* The Dashboard's sorts are applied to the arrays that map, filter, Array.from
\* and the spread copy return, never to a table of data.
DashboardMetricsLeaves(tables) == tables

(***************************************************************************)
(* Bounds and the input tables                                             *)
(***************************************************************************)
MaxInteractionRows == 2

ScenarioRows == 10

MaxAnswered == 140

MaxPerformanceRows == 2

MaxStatusRows == 2

SeqsUpTo(S, n) == UNION {[1..k -> S] : k \in 0..n}

Replicate(r, n) == [i \in 1..n |-> r]

Sales == <<"S", "a", "l", "e", "s">>

Ann == <<"A", "n", "n">>

TemplateAgent == <<"W", "F", "M", " ", "T", "e", "m", "p", "l", "a", "t", "e">>

T000130 == <<"0", ":", "0", "1", ":", "3", "0", ".", "0", "0", "0">>

T000500 == <<"0", ":", "0", "5", ":", "0", "0", ".", "0", "0", "0">>

T000100 == <<"0", ":", "0", "1", ":", "0", "0", ".", "0", "0", "0">>

T003000 == <<"0", ":", "3", "0", ":", "0", "0", ".", "0", "0", "0">>

T010000 == <<"1", ":", "0", "0", ":", "0", "0", ".", "0", "0", "0">>

T020000 == <<"2", ":", "0", "0", ":", "0", "0", ".", "0", "0", "0">>

InteractionRow(direction, queue, abandoned, users) ==
  [InitialDirection |-> direction, Queue |-> queue, Abandoned |-> abandoned,
   UsersInteracted |-> users,
   TotalQueue |-> T000130, TotalHandle |-> T000500, TotalACW |-> T000100]

InteractionRows ==
  {InteractionRow(d, Sales, a, Ann) :
     d \in {Inbound, Outbound}, a \in {YES, NO, Empty, Undefined}}
  \cup {InteractionRow(dq[1], dq[2], YES, Undefined) :
     dq \in {<<Undefined, Sales>>, <<Empty, Sales>>, <<Inbound, Undefined>>,
             <<Inbound, Empty>>, <<Inbound, Sales>>}}
  \cup {InteractionRow(Inbound, Sales, <<"y", "e", "s">>, Ann)}

\* Inbound tables with at most one abandoned row, at any position.
ScenarioTables ==
  {Replicate(InteractionRow(Inbound, Sales, NO, Ann), k) : k \in 0..ScenarioRows}
  \cup {Replicate(InteractionRow(Inbound, Sales, NO, Ann), ij[1])
          \o <<InteractionRow(Inbound, Sales, YES, Undefined)>>
          \o Replicate(InteractionRow(Inbound, Sales, NO, Ann), ij[2]) :
        ij \in {p \in (0..ScenarioRows) \X (0..ScenarioRows) : p[1] + p[2] < ScenarioRows}}

InteractionTables ==
  SeqsUpTo(InteractionRows, MaxInteractionRows) \cup ScenarioTables

AnsweredTables ==
  {Replicate(InteractionRow(Inbound, Sales, NO, Ann), k) : k \in 0..MaxAnswered}

SampleInteractionTables ==
  {<<>>,
   Replicate(InteractionRow(Inbound, Sales, NO, Ann), 5),
   <<InteractionRow(Inbound, Sales, NO, Ann), InteractionRow(Inbound, Sales, YES, Undefined)>>}

PerformanceRow(name, answered, transferred) ==
  [AgentName |-> name, Answered |-> answered, Transferred |-> transferred]

PerformanceRows ==
  {PerformanceRow(Ann, a, t) : a \in {<<"0">>, <<"5">>}, t \in {<<"0">>, <<"2">>}}
  \cup {PerformanceRow(Ann, a, <<"2">>) :
          a \in {Undefined, <<"x">>, <<"-", "3">>, <<"7", "x">>, <<"2", "0">>}}
  \cup {PerformanceRow(n, <<"5">>, <<"2">>) : n \in {TemplateAgent, Undefined}}
  \cup {PerformanceRow(Ann, <<"5">>, Undefined)}

PerformanceTables == SeqsUpTo(PerformanceRows, MaxPerformanceRows)

TotalsPerformanceTables ==
  {<<>>}
  \cup {<<PerformanceRow(Ann, a, <<"2">>)>> :
          a \in {<<"0">>, <<"1">>, <<"2", "0">>, <<"1", "0", "0">>}}

SamplePerformanceTables == {<<PerformanceRow(Ann, <<"5">>, <<"2">>)>>}

StatusRow(name, loggedIn, onQueue) ==
  [AgentName |-> name, LoggedIn |-> loggedIn, OnQueue |-> onQueue,
   Break |-> T000500, Meal |-> T003000, Away |-> T000100,
   NotResponding |-> Undefined, OffQueue |-> T000130]

StatusRows ==
  {StatusRow(Ann, l, o) : l \in {ZeroTime, T010000, T020000}, o \in {T003000, T010000}}
  \cup {StatusRow(Ann, l, T003000) : l \in {Undefined, Empty, <<" ">>}}
  \cup {StatusRow(n, T010000, T003000) : n \in {TemplateAgent, Undefined}}

\* Agents logged in for one hour, two hours and not at all.
ScenarioStatusTables ==
  {<<StatusRow(Ann, T010000, T003000), StatusRow(Ann, T020000, T010000),
     StatusRow(Ann, ZeroTime, o)>> : o \in {ZeroTime, T003000, T010000, Undefined}}

StatusTables == SeqsUpTo(StatusRows, MaxStatusRows) \cup ScenarioStatusTables

SampleStatusTables ==
  {<<>>, <<StatusRow(Ann, T010000, T003000)>>}

OneStatusTable == {<<StatusRow(Ann, T010000, T003000)>>}

\* Duration texts: every combination of an hour, a minute and a seconds
\* part, and texts that do not split into three parts.
MaxHours == 25

RECURSIVE DecimalText(_)
DecimalText(i) ==
  LET digit == CHOOSE c \in Digits : DigitVal(c) = i % 10
  IN  IF i < 10 THEN <<digit>> ELSE DecimalText(i \div 10) \o <<digit>>

HourParts == {DecimalText(h) : h \in {0, 1, MaxHours}} \cup {<<"x">>, <<>>}

MinuteParts == {<<"0", "0">>, <<"3", "0">>, <<"x">>, <<>>}

SecondsParts == {<<"0", "0">>, <<"1", "5">>, <<"3", "0", ".", "5", "0", "0">>, <<"x">>}

JoinParts(h, m, sec) == h \o <<":">> \o m \o <<":">> \o sec

T000530 == <<"0", ":", "0", "5", ":", "3", "0", ".", "0", "0", "0">>

OtherTexts ==
  {Undefined, Empty, ZeroTime, <<" ">>, <<"5">>, <<"a", "b", "c">>,
   <<"1", ":", "3", "0">>, <<"1", ":", "2", ":", "3", ":", "4">>,
   <<" ">> \o T010000 \o <<" ">>, <<" ">> \o T000130, T000130 \o <<" ">>,
   <<" ", "\t", " ">>,
   JoinParts(<<"0">>, <<"0", "0">>, InfinityText)}

DurationTexts ==
  {JoinParts(h, m, sec) : h \in HourParts, m \in MinuteParts, sec \in SecondsParts}
  \cup OtherTexts

TimedRow(direction, queue, abandoned, totalQueue, totalHandle, totalACW) ==
  [InitialDirection |-> direction, Queue |-> queue, Abandoned |-> abandoned,
   UsersInteracted |-> Ann,
   TotalQueue |-> totalQueue, TotalHandle |-> totalHandle, TotalACW |-> totalACW]

TimedRows ==
  {TimedRow(Inbound, Sales, NO, T000130, T000500, T000100),
   TimedRow(Inbound, Sales, NO, T003000, T010000, Undefined),
   TimedRow(Inbound, Sales, YES, T010000, T003000, T000100),
   TimedRow(Outbound, Sales, NO, T020000, T020000, T000500),
   TimedRow(Inbound, Sales, Empty, T000500, T000530, T000100),
   TimedRow(Inbound, Undefined, NO, T000530, T000530, T000530)}

MaxTimedRows == 3

\* One answered inbound row for every duration text, and every table of up
\* to MaxTimedRows timed rows.
TimedTables ==
  {<<TimedRow(Inbound, Sales, NO, t, T000500, T000100)>> : t \in DurationTexts}
  \cup SeqsUpTo(TimedRows, MaxTimedRows)

\* Fields as an export can leave them: missing, empty, blank, not a number.
MalformedTexts == {Undefined, Empty, <<" ">>, <<"x">>}

\* A row with every field malformed, and the row with one field malformed.
MalformedRows(row, fields) ==
  {[f \in DOMAIN row |-> m] : m \in MalformedTexts}
  \cup {[row EXCEPT ![f] = m] : f \in fields, m \in MalformedTexts}

\* The good row alone, and each malformed row followed by the good row.
MalformedTables(row, fields) ==
  {<<row>>} \cup {<<r, row>> : r \in MalformedRows(row, fields)}

MalformedPerformanceTables ==
  MalformedTables(PerformanceRow(Ann, <<"5">>, <<"2">>),
                  {"AgentName", "Answered", "Transferred"})

MalformedStatusTables ==
  MalformedTables(StatusRow(Ann, T010000, T003000), {"LoggedIn", "OnQueue"})

MalformedInteractionTables ==
  MalformedTables(InteractionRow(Inbound, Sales, NO, Ann),
                  {"InitialDirection", "Abandoned", "TotalQueue"})

\* The optional tables: none, and one with a week of hours.
TimeSummaryTables ==
  {<<>>, <<[Week |-> <<"1">>, Hours |-> <<"4", "0">>]>>}

MaxParsing == 2

\* The files a user picks or drops: the five expected files (the agent-status
\* and the time-summary file in two versions), a file of another name, and
\* an agent-status file that cannot be read.
UploadFiles ==
  {[name |-> "agentStatus", rows |-> t] : t \in SampleStatusTables}
  \cup {[name |-> "agentPerformance", rows |-> t] : t \in SamplePerformanceTables}
  \cup {[name |-> "trainingInteractions", rows |-> <<InteractionRow(Inbound, Sales, NO, Ann)>>]}
  \cup {[name |-> "historicalAdherence", rows |-> <<[Agent |-> Ann]>>]}
  \cup {[name |-> "timeSummary", rows |-> t] : t \in TimeSummaryTables}
  \cup {[name |-> "notes", rows |-> <<[Note |-> Ann]>>]}
  \cup {[name |-> "agentStatus"]}

\* Every order of the rows of a table.
Orderings(table) ==
  {[i \in DOMAIN table |-> table[pi[i]]] : pi \in Permutations(DOMAIN table)}

\* Tables in every order of their rows; the durations are whole minutes.
PermutedPerformanceTables ==
  Orderings(<<PerformanceRow(Ann, <<"5">>, <<"2">>),
              PerformanceRow(Ann, <<"2", "0">>, <<"0">>)>>)

PermutedStatusTables ==
  Orderings(<<[StatusRow(Ann, T010000, T003000) EXCEPT !.OffQueue = T000100],
              [StatusRow(Ann, T020000, T010000) EXCEPT !.OffQueue = T003000],
              [StatusRow(Ann, ZeroTime, T003000) EXCEPT !.OffQueue = T000100]>>)

PermutedInteractionTables ==
  Orderings(<<TimedRow(Inbound, Sales, NO, T000500, T010000, T000100),
              TimedRow(Inbound, Sales, NO, T003000, T000500, T000100),
              TimedRow(Outbound, Sales, YES, T010000, ZeroTime, Undefined)>>)

(***************************************************************************)
(* State                                                                   *)
(***************************************************************************)
VARIABLES
  files,            \* FileUpload: per expected file, uploaded and its parsed rows
  parsing,          \* the Papa.parse calls whose callback has not run yet:
                    \* the file's name and its rows (none if it cannot be read)
  loading,          \* App: the loading flag
  pending,          \* the armed setTimeout callbacks, oldest first
  data,             \* App: null (<<>>) or the loaded CSVData (<<csvData>>)
  detailedMetrics,  \* Dashboard: the useMemo'd MetricsCalculator report
  metrics           \* Dashboard: the useMemo'd inline metrics

vars == <<files, parsing, loading, pending, data, detailedMetrics, metrics, returned>>

None == <<>>

\* The files are known by the table they feed; each stands for its file name.
RequiredFiles == {"agentStatus", "agentPerformance", "trainingInteractions"}

OptionalFiles == {"historicalAdherence", "timeSummary"}

Init ==
  /\ files = [f \in RequiredFiles \cup OptionalFiles |->
                [uploaded |-> FALSE]]
  /\ parsing = {}
  /\ loading = FALSE
  /\ pending = None
  /\ data = None
  /\ detailedMetrics = None
  /\ metrics = None
  /\ returned = {}

\* Papa.parse(file, ...) is started; its callback runs later.  FileUpload is
\* mounted only while App holds no data.
handleFileUpload(file) ==
  /\ data = None
  /\ parsing' = parsing \cup {file}
  /\ UNCHANGED <<files, loading, pending, data, detailedMetrics, metrics, returned>>

\* An update computed from the files as they were at the start, not as they
\* are: every other file is back to not uploaded.
markUploadedFromScratch(prev, name, rows) ==
  [f \in DOMAIN prev |->
     IF f = name THEN [uploaded |-> TRUE, data |-> rows] ELSE [uploaded |-> FALSE]]

\* prev.map(f => f.name === file.name ? {...f, uploaded: true, data} : f)
markUploaded(prev, name, rows) ==
  [f \in DOMAIN prev |->
     IF f = name THEN [uploaded |-> TRUE, data |-> rows] ELSE prev[f]]

\* The complete callback of a parse: setFiles(prev => ...), which does nothing
\* once FileUpload is unmounted.
complete(p) ==
  /\ p \in parsing
  /\ "rows" \in DOMAIN p
  /\ parsing' = parsing \ {p}
  /\ files' = IF data = None THEN markUploaded(files, p.name, p.rows) ELSE files
  /\ UNCHANGED <<loading, pending, data, detailedMetrics, metrics, returned>>

\* The error callback of a parse: console.error only.
error(p) ==
  /\ p \in parsing
  /\ "rows" \notin DOMAIN p
  /\ parsing' = parsing \ {p}
  /\ UNCHANGED <<files, loading, pending, data, detailedMetrics, metrics, returned>>

\* A dropped file is parsed when its name is one of the expected names.
handleDrop(file) ==
  IF file.name \in DOMAIN files
    THEN handleFileUpload(file)
    ELSE data = None /\ UNCHANGED vars

\* The input element of the file fileName is rendered while that file is not
\* uploaded; the file chosen there may have any name.
handleFileInput(fileName, file) ==
  /\ ~files[fileName].uploaded
  /\ handleFileUpload(file)

allRequiredUploaded == \A f \in RequiredFiles : files[f].uploaded

\* A table with a row for a file never parsed.
dataOrSampleRows(f) ==
  IF "data" \in DOMAIN f THEN f.data ELSE <<[Week |-> <<"1">>, Hours |-> <<"4", "0">>]>>

\* files.find(...)?.data || []: a file never parsed has no data
dataOrNoRows(f) == IF "data" \in DOMAIN f THEN f.data ELSE <<>>

\* A button that is never disabled.
analyzeNeverDisabled == allRequiredUploaded

\* The Analyze button: rendered when allRequiredUploaded, disabled while loading.
analyzeAvailable == allRequiredUploaded /\ ~loading

\* setLoading(true); setTimeout(..., 2000) over the files of this render.
handleAnalyzeData ==
  /\ data = None
  /\ analyzeAvailable
  /\ loading' = TRUE
  /\ pending' = Append(pending,
                  [agentStatus          |-> dataOrNoRows(files["agentStatus"]),
                   agentPerformance     |-> dataOrNoRows(files["agentPerformance"]),
                   trainingInteractions |-> dataOrNoRows(files["trainingInteractions"]),
                   historicalAdherence  |-> dataOrNoRows(files["historicalAdherence"]),
                   timeSummary          |-> dataOrNoRows(files["timeSummary"])])
  /\ UNCHANGED <<files, parsing, data, detailedMetrics, metrics, returned>>

\* The setTimeout callback: onDataLoaded(csvData); setLoading(false).
analyzeTimeout ==
  /\ pending # <<>>
  /\ data' = <<Head(pending)>>
  /\ loading' = FALSE
  /\ pending' = Tail(pending)
  /\ UNCHANGED <<files, parsing, detailedMetrics, metrics, returned>>

MaxCalls == 3

MaxCalculators == 2

\* The calculators calls are made on; 0 is the one the Dashboard creates.
Calculators == 1..MaxCalculators

\* What a call on the calculator c leaves in the history: the tables passed,
\* the same tables as they are after the call, whether the call raised, and
\* the report it returned if it did not.
CallRecord(c, agentPerformance, agentStatus, trainingInteractions, timeSummary) ==
  LET thrown == calculateDetailedMetricsThrows(agentPerformance, agentStatus,
                                               trainingInteractions)
  IN  [calculator |-> c,
       input      |-> [agentPerformance     |-> agentPerformance,
                       agentStatus          |-> agentStatus,
                       trainingInteractions |-> trainingInteractions,
                       timeSummary          |-> timeSummary],
       after      |-> calculateDetailedMetricsLeaves(
                        [agentPerformance     |-> agentPerformance,
                         agentStatus          |-> agentStatus,
                         trainingInteractions |-> trainingInteractions,
                         timeSummary          |-> timeSummary]),
       thrown     |-> thrown,
       report     |-> IF thrown THEN None
                      ELSE calculateDetailedMetrics(agentPerformance, agentStatus,
                                                    trainingInteractions, timeSummary)]

\* Dashboard's first render: both useMemo computations over data.  A call
\* that raises leaves the component without its metrics.
DashboardRender ==
  /\ data # None
  /\ detailedMetrics = None
  /\ data' = <<DashboardMetricsLeaves(calculateDetailedMetricsLeaves(data[1]))>>
  /\ LET thrown == calculateDetailedMetricsThrows(data[1].agentPerformance,
                     data[1].agentStatus, data[1].trainingInteractions)
     IN  /\ detailedMetrics' =
               IF thrown THEN None
               ELSE <<calculateDetailedMetrics(data[1].agentPerformance,
                        data[1].agentStatus, data[1].trainingInteractions,
                        data[1].timeSummary)>>
         /\ metrics' =
               IF thrown THEN None
               ELSE <<DashboardMetrics(data[1].agentPerformance, data[1].agentStatus,
                                       data[1].trainingInteractions)>>
         /\ returned' = returned \cup
              {[calculator |-> 0,
                input      |-> [agentPerformance     |-> data[1].agentPerformance,
                                agentStatus          |-> data[1].agentStatus,
                                trainingInteractions |-> data[1].trainingInteractions,
                                timeSummary          |-> data[1].timeSummary],
                after      |-> [agentPerformance     |-> data'[1].agentPerformance,
                                agentStatus          |-> data'[1].agentStatus,
                                trainingInteractions |-> data'[1].trainingInteractions,
                                timeSummary          |-> data'[1].timeSummary],
                thrown     |-> thrown,
                report     |-> IF thrown THEN None ELSE detailedMetrics'[1]]}
  /\ UNCHANGED <<files, parsing, loading, pending>>

\* A call of calculateDetailedMetrics on the calculator c.
Call(c, agentPerformance, agentStatus, trainingInteractions, timeSummary) ==
  /\ Cardinality(returned) < MaxCalls
  /\ returned' = returned \cup
       {CallRecord(c, agentPerformance, agentStatus, trainingInteractions, timeSummary)}
  /\ UNCHANGED <<files, parsing, loading, pending, data, detailedMetrics, metrics>>

\* The uploads of the three required files, one parse at a time, each file
\* chosen at its own input element.
UploadAgentPerformance(tables) ==
  /\ parsing = {}
  /\ \E rows \in tables :
       handleFileInput("agentPerformance", [name |-> "agentPerformance", rows |-> rows])

UploadAgentStatus(tables) ==
  /\ parsing = {}
  /\ \E rows \in tables :
       handleFileInput("agentStatus", [name |-> "agentStatus", rows |-> rows])

UploadTrainingInteractions(tables) ==
  /\ parsing = {}
  /\ \E rows \in tables :
       handleFileInput("trainingInteractions",
                       [name |-> "trainingInteractions", rows |-> rows])

NextOver(performanceTables, statusTables, interactionTables) ==
  \/ UploadAgentPerformance(performanceTables)
  \/ UploadAgentStatus(statusTables)
  \/ UploadTrainingInteractions(interactionTables)
  \/ \E p \in parsing : complete(p)
  \/ handleAnalyzeData
  \/ analyzeTimeout
  \/ DashboardRender

\* The interaction table varies.
NextInteractions ==
  NextOver(SamplePerformanceTables, OneStatusTable, InteractionTables)

SpecInteractions == Init /\ [][NextInteractions]_vars

\* The two call totals vary.
NextReconciliation ==
  NextOver(TotalsPerformanceTables, OneStatusTable, AnsweredTables)

SpecReconciliation == Init /\ [][NextReconciliation]_vars

\* The agent-performance table varies.
NextPerformance ==
  NextOver(PerformanceTables, SampleStatusTables, SampleInteractionTables)

SpecPerformance == Init /\ [][NextPerformance]_vars

\* The agent-status table varies.
NextStatus ==
  NextOver(SamplePerformanceTables, StatusTables, SampleInteractionTables)

SpecStatus == Init /\ [][NextStatus]_vars

\* The durations of the interaction rows vary.
NextDurations ==
  NextOver(SamplePerformanceTables, SampleStatusTables, TimedTables)

SpecDurations == Init /\ [][NextDurations]_vars

\* Calls of calculateDetailedMetrics, one after the other, on any calculator
\* and with any tables.
NextCalls ==
  \E c \in Calculators, agentPerformance \in SamplePerformanceTables,
     agentStatus \in OneStatusTable, trainingInteractions \in SampleInteractionTables,
     timeSummary \in TimeSummaryTables :
    Call(c, agentPerformance, agentStatus, trainingInteractions, timeSummary)

SpecCalls == Init /\ [][NextCalls]_vars

\* Every table has a malformed row.
NextMalformed ==
  NextOver(MalformedPerformanceTables, MalformedStatusTables, MalformedInteractionTables)

SpecMalformed == Init /\ [][NextMalformed]_vars

\* The upload of an optional file, at its own input element.
UploadOptional(name) ==
  /\ parsing = {}
  /\ \E rows \in TimeSummaryTables : handleFileInput(name, [name |-> name, rows |-> rows])

\* The optional tables vary: each is left out, or uploaded empty or with rows.
NextOptional ==
  \/ UploadOptional("timeSummary")
  \/ UploadOptional("historicalAdherence")
  \/ NextOver(SamplePerformanceTables, OneStatusTable, SampleInteractionTables)

SpecOptional == Init /\ [][NextOptional]_vars

\* Any file at any input element or dropped, with up to MaxParsing parses
\* under way, their callbacks in any order.
NextUploads ==
  \/ \E fileName \in RequiredFiles \cup OptionalFiles, file \in UploadFiles :
       Cardinality(parsing) < MaxParsing /\ handleFileInput(fileName, file)
  \/ \E file \in UploadFiles :
       Cardinality(parsing) < MaxParsing /\ handleDrop(file)
  \/ \E p \in parsing : complete(p)
  \/ \E p \in parsing : error(p)
  \/ handleAnalyzeData
  \/ analyzeTimeout
  \/ DashboardRender

SpecUploads == Init /\ [][NextUploads]_vars

\* The order of the rows varies, in the three tables.
NextPermuted ==
  NextOver(PermutedPerformanceTables, PermutedStatusTables, PermutedInteractionTables)

SpecPermuted == Init /\ [][NextPermuted]_vars

Spec == SpecPerformance

Rendered == detailedMetrics # None

Report == detailedMetrics[1]

Input == data[1]

(***************************************************************************)
(* Properties.  The counts and sums below are taken directly from the      *)
(* input tables, independently of the calculator's own folds.              *)
(***************************************************************************)
Present(t) == t # Undefined /\ t # Empty

KeptInteractions(table) ==
  {i \in DOMAIN table : Present(table[i].InitialDirection) /\ Present(table[i].Queue)}

KeptInbound(table) ==
  {i \in KeptInteractions(table) : table[i].InitialDirection = Inbound}

KeptWith(table, abandoned) ==
  {i \in KeptInteractions(table) : table[i].Abandoned = abandoned}

RECURSIVE SumInts(_)
SumInts(s) == IF s = <<>> THEN 0 ELSE s[1] + SumInts(Tail(s))

\* r is the number 100 * part / whole (whole # 0).
IsPercentOf(r, part, whole) == IsFinite(r) /\ r.n * whole = 100 * part * r.d

\* C1: Total Calls equals the number of kept interaction rows minus the
\* number of kept rows whose Abandoned field is YES, whatever values the
\* Abandoned field takes.
C1_TotalCallsIsKeptMinusAbandoned ==
  Rendered =>
    Report.totalCalls =
      Num(Cardinality(KeptInteractions(Input.trainingInteractions))
            - Cardinality(KeptWith(Input.trainingInteractions, YES)))

C4_AbandonmentRateRange ==
  Rendered =>
    /\ NumLe(Num(0), Report.abandonmentRate)
    /\ NumLe(Report.abandonmentRate, Num(100))
    /\ KeptInbound(Input.trainingInteractions) = {} => Report.abandonmentRate = Num(0)

C4_Witness ==
  /\ Rendered
  /\ KeptInbound(Input.trainingInteractions) = {}
  /\ KeptWith(Input.trainingInteractions, YES) # {}
  /\ Report.abandonmentRate = Num(0)

\* The integer a text parses to with parseInt, 0 when it parses to none.
IntOf(t) == OrZero(parseInt(t)).n

SumAnswered(rows) == SumInts([i \in 1..Len(rows) |-> IntOf(rows[i].Answered)])

SumTransferred(rows) == SumInts([i \in 1..Len(rows) |-> IntOf(rows[i].Transferred)])

\* C2: the Transfer Rate is 100 x (sum of Transferred) / (sum of Answered),
\* both over the filtered agent-performance rows, whatever the interaction
\* table holds; and when the two answered totals differ by more than 5% the
\* transferRate trace records the reported performance-based rate, the rate
\* the interaction-derived denominator would give, and the source chosen.
C2_TransferRateFromPerformance ==
  Rendered =>
    LET rows   == validAgentPerformance(Input.agentPerformance)
        totalA == SumAnswered(rows)
        totalB == Cardinality(KeptWith(Input.trainingInteractions, NO))
        moved  == SumTransferred(rows)
        rate   == Report.transferRate
        trace  == Report.calculationDetails.transferRate.values
    IN  /\ totalA > 0 => IsPercentOf(rate, moved, totalA)
        /\ totalA <= 0 => rate = Num(0)
        /\ 100 * Abs(totalA - totalB) > 5 * totalA =>
             /\ trace.reportedRate = rate
             /\ trace.agentPerformanceRate = rate
             /\ trace.rateCalculationBasis = "Agent Performance (internally consistent)"
             /\ totalB > 0 => IsPercentOf(trace.mixedSourceRate, moved, totalB)
             /\ totalB = 0 => trace.mixedSourceRate = Num(0)

C2_Witness ==
  /\ Rendered
  /\ LET rows   == validAgentPerformance(Input.agentPerformance)
         totalA == SumAnswered(rows)
         totalB == Cardinality(KeptWith(Input.trainingInteractions, NO))
         trace  == Report.calculationDetails.transferRate.values
     IN  /\ totalA > 0 /\ totalB > 0 /\ SumTransferred(rows) > 0
         /\ 100 * Abs(totalA - totalB) > 5 * totalA
         /\ trace.reportedRate = Report.transferRate
         /\ trace.mixedSourceRate # Report.transferRate

\* Every number the report holds.
ReportNumbers(r) ==
  LET d == r.calculationDetails
  IN  {r.totalCalls, r.transferRate, r.productiveUtilization, r.onQueueUtilization,
       r.avgSpeedOfAnswer, r.abandonmentRate, r.avgHandleTime, r.shrinkage,
       d.dataReconciliation.values.callDiscrepancy,
       d.dataReconciliation.values.discrepancyPercent,
       d.dataReconciliation.values.agentCoverage.missingAgents,
       d.dataReconciliation.values.agentCoverage.possibleCallsPerMissingAgent,
       d.dataReconciliation.result.percent,
       d.totalCalls.result,
       d.totalCalls.values.discrepancyFromAgentData,
       d.transferRate.values.reportedRate,
       d.transferRate.values.agentPerformanceRate,
       d.transferRate.values.mixedSourceRate,
       d.transferRate.values.potentialUnderstatement,
       d.transferRate.values.businessImpact.differenceInTransfers,
       d.abandonmentRate.result,
       d.avgSpeedOfAnswer.result,
       d.avgHandleTime.result,
       d.productiveUtilization.result,
       d.onQueueUtilization.result,
       d.shrinkage.result}
      \cup {d.onQueueUtilization.values.utilizationSamples[i].utilization :
              i \in DOMAIN d.onQueueUtilization.values.utilizationSamples}
      \cup {d.shrinkage.values.agentSamples[i].shrinkage :
              i \in DOMAIN d.shrinkage.values.agentSamples}

\* C7: no value of the report is NaN or infinite, and the derived ratios
\* possibleCallsPerMissingAgent and potentialUnderstatement are 0 when their
\* denominators (the number of missing agents, the performance-based transfer
\* rate) are 0.
C7_NoNaNOrInfinity ==
  Rendered =>
    LET d == Report.calculationDetails
    IN  /\ \A v \in ReportNumbers(Report) : IsFinite(v)
        /\ d.dataReconciliation.values.agentCoverage.missingAgents = Num(0)
             => d.dataReconciliation.values.agentCoverage.possibleCallsPerMissingAgent = Num(0)
        /\ d.transferRate.values.agentPerformanceRate = Num(0)
             => d.transferRate.values.potentialUnderstatement = Num(0)

ParsesToAtLeast(row, least) ==
  /\ IsFinite(parseInt(row.Answered))
  /\ parseInt(row.Answered).d = 1
  /\ parseInt(row.Answered).n >= least
  /\ (row.AgentName = Undefined \/ ~includes(row.AgentName, Template))

AnsweredNonNegative(row) == ParsesToAtLeast(row, 0)

AnsweredPositive(row) == ParsesToAtLeast(row, 1)

TotalA == SumAnswered(validAgentPerformance(Input.agentPerformance))

TotalB == Cardinality(KeptWith(Input.trainingInteractions, NO))

\* C5: discrepancy = |A - B| and discrepancyPercent = discrepancy /
\* max(A, epsilon) x 100; in particular with A = 0 and B > 0 the discrepancy
\* percent is not 0 and the finding is not classified as acceptable variance.
C5_DiscrepancyPercentEpsilon ==
  Rendered =>
    LET finding == Report.calculationDetails.dataReconciliation
    IN  /\ finding.values.callDiscrepancy = Num(Abs(TotalA - TotalB))
        /\ TotalA > 0 =>
             finding.values.discrepancyPercent
               = toFixed(Norm(100 * Abs(TotalA - TotalB), TotalA), 2)
        /\ (TotalA = 0 /\ TotalB > 0) =>
             /\ finding.values.discrepancyPercent # Num(0)
             /\ finding.result.text # "acceptable"
             /\ finding.values.dataQualityFlag # "Acceptable variance"

\* C6: the result of the reconciliation finding puts the discrepancy percent
\* p (100 |A - B| / A, and 0 when A is 0) in exactly one of three classes:
\* acceptable when p <= 5, data-integrity warning when 5 < p <= 30, urgent
\* when p > 30; totals (100, 104), (100, 120), (100, 140) are acceptable,
\* warning and urgent.
C6_ThreeSeverities ==
  Rendered =>
    LET text == Report.calculationDetails.dataReconciliation.result.text
        diff == IF TotalA > 0 THEN 100 * Abs(TotalA - TotalB) ELSE 0
        base == IF TotalA > 0 THEN TotalA ELSE 1
    IN  /\ text \in {"acceptable", "DATA INTEGRITY ISSUE", "URGENT DATA ISSUE"}
        /\ text = "acceptable" <=> diff <= 5 * base
        /\ text = "DATA INTEGRITY ISSUE" <=> (5 * base < diff /\ diff <= 30 * base)
        /\ text = "URGENT DATA ISSUE" <=> diff > 30 * base
        /\ (TotalA = 100 /\ TotalB = 104) => text = "acceptable"
        /\ (TotalA = 100 /\ TotalB = 120) => text = "DATA INTEGRITY ISSUE"
        /\ (TotalA = 100 /\ TotalB = 140) => text = "URGENT DATA ISSUE"

C6_Witness ==
  /\ Rendered
  /\ TotalA = 100
  /\ TotalB = 120
  /\ Report.calculationDetails.dataReconciliation.result.text = "DATA INTEGRITY ISSUE"
  /\ Report.calculationDetails.dataReconciliation.result.percent = Num(20)

\* C8: an interaction row is kept iff its Initial Direction and its Queue
\* are both present and non-empty, whatever its assigned-agent field; every
\* kept abandoned inbound row is counted as abandoned; and the Dashboard's
\* own computation keeps the same rows, so it shows the same Abandonment Rate.
C8_SameInteractionFilterEverywhere ==
  Rendered =>
    LET table == Input.trainingInteractions
        d     == Report.calculationDetails
    IN  /\ \A i \in DOMAIN table :
             /\ InteractionRowKept(table[i]) <=> i \in KeptInteractions(table)
             /\ InteractionRowKept(table[i])
                  <=> InteractionRowKept([table[i] EXCEPT !.UsersInteracted = Undefined])
             /\ DashboardInteractionRowKept(table[i]) <=> i \in KeptInteractions(table)
        /\ d.dataFiltering.values.validInteractions
             = Num(Cardinality(KeptInteractions(table)))
        /\ d.abandonmentRate.values.abandonedInboundCalls
             = Num(Cardinality(KeptInbound(table) \cap KeptWith(table, YES)))
        /\ metrics[1].abandonmentRate = Report.abandonmentRate

StatusKeptAsClaimed(agent) ==
  /\ Present(agent.LoggedIn)
  /\ trim(agent.LoggedIn) # Empty
  /\ agent.LoggedIn # ZeroTime
  /\ (agent.AgentName = Undefined \/ ~includes(agent.AgentName, Template))

LoggedTimeNotZero(agent) == parseTimeToMinutes(OrZeroTime(agent.LoggedIn)) # Num(0)

\* C9: an agent-status row is kept iff its Logged In text is non-empty, is
\* not the zero sentinel 0:00:00.000 and its name marks no template; a row
\* whose logged-in duration is zero contributes to no aggregate, so the
\* report is the one of the table without such rows.
C9_ZeroLoggedRowsExcluded ==
  Rendered =>
    LET kept    == SelectSeq(Input.agentStatus, StatusKeptAsClaimed)
        nonZero == calculateDetailedMetrics(Input.agentPerformance,
                     SelectSeq(Input.agentStatus, LoggedTimeNotZero),
                     Input.trainingInteractions, Input.timeSummary)
    IN  /\ Report.calculationDetails.dataFiltering.values.validAgentStatusRows
             = Num(Len(kept))
        /\ Report.onQueueUtilization = nonZero.onQueueUtilization
        /\ Report.shrinkage = nonZero.shrinkage
        /\ Report.productiveUtilization = nonZero.productiveUtilization

(***************************************************************************)
(* The duration parser, observed through the report: a table of one kept,  *)
(* answered inbound row shows the parse of its Total Queue text as the     *)
(* first queue-time sample.                                                *)
(***************************************************************************)
OneAnswered ==
  /\ Rendered
  /\ Len(Input.trainingInteractions) = 1
  /\ KeptInbound(Input.trainingInteractions) = {1}
  /\ Input.trainingInteractions[1].Abandoned = NO

QueueText == Input.trainingInteractions[1].TotalQueue

QueueSample == Report.calculationDetails.avgSpeedOfAnswer.values.sampleQueueTimes[1]

Colons(t) == Cardinality({i \in DOMAIN t : t[i] = ":"})

Blank(t) == \A i \in DOMAIN t : t[i] \in {" ", "\t"}

AllDigits(part) == part # <<>> /\ \A i \in DOMAIN part : part[i] \in Digits

\* A part with no digit in it (and not the word Infinity).
NotANumber(part) ==
  /\ \A i \in DOMAIN part : part[i] \notin Digits
  /\ ~includes(part, InfinityText)

\* C11: the duration parser returns 0 for the empty string, a missing value,
\* the sentinel 0:00:00.000, white space and every text that does not split
\* on ':' into exactly three parts, and returns a number for every text.
C11_ParserTotal ==
  /\ parseTimeToMinutes(Undefined) = Num(0)
  /\ parseTimeToMinutes(Empty) = Num(0)
  /\ OneAnswered =>
       /\ ~IsNaN(QueueSample)
       /\ (QueueText \in {Undefined, Empty, ZeroTime} \/ Blank(QueueText)
             \/ Colons(QueueText) # 2)
            => QueueSample = Num(0)

C11_Witness ==
  /\ OneAnswered
  /\ QueueText = <<"1", ":", "3", "0">>
  /\ QueueSample = Num(0)

\* C12: for a text H:MM:SS of non-negative integers the duration parser
\* returns H x 3600 + MM x 60 + SS, seconds, and the KPI calculators
\* aggregate that value (the queue-time total and the Average Speed of
\* Answer of a one-row table are that number of seconds).
C12_ParserReturnsSeconds ==
  OneAnswered =>
    LET parts == split(QueueText, ":")
    IN  (QueueText # Undefined /\ Len(parts) = 3 /\ \A k \in 1..3 : AllDigits(parts[k])) =>
          LET seconds == Num(3600 * DigitsValue(parts[1]) + 60 * DigitsValue(parts[2])
                               + DigitsValue(parts[3]))
          IN  /\ QueueSample = seconds
              /\ Report.calculationDetails.avgSpeedOfAnswer.values.totalQueueTimeMinutes
                   = seconds
              /\ Report.avgSpeedOfAnswer = seconds

\* C13: in a text of exactly three parts, a part that is not a number
\* contributes 0 and the other two parts contribute in full.
C13_NonNumericPartIsZero ==
  OneAnswered =>
    LET parts == split(QueueText, ":")
        h == parts[1]
        m == parts[2]
        sec == parts[3]
    IN  (QueueText # Undefined /\ Len(parts) = 3) =>
          /\ NotANumber(h) => QueueSample = parseTimeToMinutes(JoinParts(<<"0">>, m, sec))
          /\ NotANumber(m) => QueueSample = parseTimeToMinutes(JoinParts(h, <<"0">>, sec))
          /\ NotANumber(sec) => QueueSample = parseTimeToMinutes(JoinParts(h, m, <<"0">>))
          /\ (NotANumber(h) /\ AllDigits(m) /\ AllDigits(sec))
               => QueueSample = Norm(60 * DigitsValue(m) + DigitsValue(sec), 60)
          /\ (AllDigits(h) /\ NotANumber(m) /\ AllDigits(sec))
               => QueueSample = Norm(3600 * DigitsValue(h) + DigitsValue(sec), 60)
          /\ (AllDigits(h) /\ AllDigits(m) /\ NotANumber(sec))
               => QueueSample = Num(60 * DigitsValue(h) + DigitsValue(m))

C13_Witness ==
  /\ OneAnswered
  /\ QueueText = JoinParts(<<"x">>, <<"3", "0">>, <<"1", "5">>)
  /\ QueueSample = Norm(121, 4)

(***************************************************************************)
(* Sums of parsed durations, taken over the rows of the input tables.      *)
(***************************************************************************)
Parsed(t) == parseTimeToMinutes(OrZeroTime(t))

\* The kept rows that are not abandoned (Abandoned = NO), and the inbound
\* ones among them.
KeptAnswered(table) == KeptWith(table, NO)

KeptAnsweredInbound(table) == KeptInbound(table) \cap KeptWith(table, NO)

\* The sum of the parsed field f over the rows of table with index in rows.
RECURSIVE FieldSum(_, _, _, _)
FieldSum(table, rows, f, k) ==
  IF k = 0 THEN Num(0)
  ELSE NumAdd(FieldSum(table, rows, f, k - 1),
              IF k \in rows THEN Parsed(table[k][f]) ELSE Num(0))

Average(total, count) == IF count = 0 THEN Num(0) ELSE NumDiv(total, Num(count))

\* C14: the Average Speed of Answer is the sum of the parsed Total Queue of
\* the kept, inbound, not abandoned rows divided by their number, 0 when
\* there is none; it is the average of the table without its other rows.
C14_AvgSpeedOfAnswer ==
  Rendered =>
    LET table == Input.trainingInteractions
        rows  == KeptAnsweredInbound(table)
    IN  /\ Report.avgSpeedOfAnswer
             = Average(FieldSum(table, rows, "TotalQueue", Len(table)), Cardinality(rows))
        /\ rows = {} => Report.avgSpeedOfAnswer = Num(0)
        /\ Report.calculationDetails.avgSpeedOfAnswer.values.answeredInboundCalls
             = Num(Cardinality(rows))

C14_Witness ==
  /\ Rendered
  /\ Input.trainingInteractions
       = <<TimedRow(Inbound, Sales, NO, T000130, T000500, T000100),
           TimedRow(Inbound, Sales, YES, T010000, T003000, T000100),
           TimedRow(Outbound, Sales, NO, T020000, T020000, T000500)>>
  /\ Report.avgSpeedOfAnswer = Norm(3, 2)

LoggedSum ==
  LET kept == SelectSeq(Input.agentStatus, StatusKeptAsClaimed)
  IN  FieldSum(kept, DOMAIN kept, "LoggedIn", Len(kept))

LoggedRows ==
  LET kept(agent) == StatusKeptAsClaimed(agent) /\ LoggedTimeNotZero(agent)
  IN  SelectSeq(Input.agentStatus, kept)

StatusSum(rows, f) == FieldSum(rows, DOMAIN rows, f, Len(rows))

PercentOf(part, whole) ==
  IF whole = Num(0) THEN Num(0) ELSE NumDiv(NumMul(Num(100), part), whole)

\* C17: On-Queue Utilization is 100 x (sum of parsed On Queue) / (sum of
\* parsed Logged In) over the status rows without those of zero or empty
\* logged-in duration; rows logged in 1:00:00.000, 2:00:00.000 and
\* 0:00:00.000 with 0:30:00.000 and 1:00:00.000 on queue for the first two
\* give 50 whatever the third row's On Queue is.
C17_OnQueueUtilization ==
  Rendered =>
    LET status == Input.agentStatus
    IN  /\ Report.onQueueUtilization
             = PercentOf(StatusSum(LoggedRows, "OnQueue"), StatusSum(LoggedRows, "LoggedIn"))
        /\ (/\ Len(status) = 3
            /\ status[1].LoggedIn = T010000 /\ status[1].OnQueue = T003000
            /\ status[2].LoggedIn = T020000 /\ status[2].OnQueue = T010000
            /\ status[3].LoggedIn = ZeroTime)
             => Report.onQueueUtilization = Num(50)

\* C18: Shrinkage is 100 x (sum over the kept status rows of parsed Break +
\* Meal + Away + Not Responding + Off Queue) / (sum over the same rows of
\* parsed Logged In), 0 when the logged-in sum is 0.
C18_Shrinkage ==
  Rendered =>
    LET kept == SelectSeq(Input.agentStatus, StatusKeptAsClaimed)
        away == NumAdd(NumAdd(NumAdd(NumAdd(StatusSum(kept, "Break"),
                                            StatusSum(kept, "Meal")),
                                     StatusSum(kept, "Away")),
                              StatusSum(kept, "NotResponding")),
                       StatusSum(kept, "OffQueue"))
    IN  Report.shrinkage = PercentOf(away, StatusSum(kept, "LoggedIn"))

KpiNames ==
  {"totalCalls", "transferRate", "abandonmentRate", "avgSpeedOfAnswer", "avgHandleTime",
   "productiveUtilization", "onQueueUtilization", "shrinkage"}

\* C19: for each of the eight KPIs the report holds a trace with a formula,
\* the input aggregates, a rendered calculation and a result, and the
\* trace's result is the number returned as that KPI's value.
C19_TraceResultIsKpi ==
  Rendered =>
    \A k \in KpiNames :
      /\ k \in DOMAIN Report.calculationDetails
      /\ DOMAIN Report.calculationDetails[k] = {"formula", "values", "calculation", "result"}
      /\ Report.calculationDetails[k].result = Report[k]

Figures(r) ==
  [kpis           |-> [k \in KpiNames |-> r[k]],
   reconciliation |-> r.calculationDetails.dataReconciliation.result]

NoLoggedTime(t) == t \in {Undefined, Empty, <<" ">>}

ZeroIfMalformed(t, zero) == IF t \in MalformedTexts THEN zero ELSE t

\* The tables with every malformed number replaced by a zero and every row
\* without a count, a logged time, a direction or a queue left out.
RepairedPerformance(table) ==
  LET kept == SelectSeq(table, LAMBDA r : r.Answered \notin MalformedTexts)
  IN  [i \in DOMAIN kept |->
         [kept[i] EXCEPT !.Transferred = ZeroIfMalformed(@, <<"0">>)]]

RepairedStatus(table) ==
  LET kept == SelectSeq(table, LAMBDA r : ~NoLoggedTime(r.LoggedIn))
  IN  [i \in DOMAIN kept |->
         [f \in DOMAIN kept[i] |->
            IF f = "AgentName" THEN kept[i][f] ELSE ZeroIfMalformed(kept[i][f], ZeroTime)]]

RepairedInteractions(table) ==
  LET kept == SelectSeq(table, LAMBDA r : Present(r.InitialDirection) /\ Present(r.Queue))
  IN  [i \in DOMAIN kept |->
         [kept[i] EXCEPT !.TotalQueue  = ZeroIfMalformed(@, ZeroTime),
                         !.TotalHandle = ZeroIfMalformed(@, ZeroTime),
                         !.TotalACW    = ZeroIfMalformed(@, ZeroTime)]]

\* C21: whatever the fields of the three tables hold (any text, or nothing),
\* calculateDetailedMetrics returns a report and does not raise, and the
\* figures are those of the tables with each malformed number taken as zero
\* and each row without its key field left out.
C21_MalformedFieldsNeverRaise ==
  \A p \in returned :
    /\ ~p.thrown
    /\ KpiNames \subseteq DOMAIN p.report
    /\ Figures(p.report) =
         Figures(calculateDetailedMetrics(RepairedPerformance(p.input.agentPerformance),
                                          RepairedStatus(p.input.agentStatus),
                                          RepairedInteractions(p.input.trainingInteractions),
                                          p.input.timeSummary))

C21_Witness ==
  \E p \in returned :
    /\ ~p.thrown
    /\ p.input.agentPerformance[1].Answered = <<"x">>
    /\ p.input.agentStatus[1].LoggedIn = Undefined
    /\ p.input.trainingInteractions[1].TotalQueue = Undefined
    /\ p.input.trainingInteractions[1].Abandoned = NO
    /\ p.report.totalCalls = Num(2)

\* The status rows behind the displayed utilization KPIs that show a
\* utilization above zero.
ShownAgents(status) ==
  {i \in DOMAIN status :
     /\ StatusRowKept(status[i])
     /\ NumGt(Parsed(status[i].LoggedIn), Num(0))
     /\ NumGt(Parsed(status[i].OnQueue), Num(0))}

\* C22: every metric of a table is computed over one filtered row set: the
\* three utilization traces show the same logged-in total, the traces over
\* the interactions show the same row count, and the per-agent figures of
\* the dashboard are those of the rows behind the KPI values it displays.
C22_OneFilteredSetPerTable ==
  Rendered =>
    LET d == Report.calculationDetails
    IN  /\ d.productiveUtilization.values.totalLoggedTimeMinutes
             = d.onQueueUtilization.values.totalLoggedTimeMinutes
        /\ d.onQueueUtilization.values.totalLoggedTimeMinutes
             = d.shrinkage.values.totalLoggedTime
        /\ d.totalCalls.values.totalInteractions
             = d.abandonmentRate.values.totalInteractions
        /\ d.totalCalls.values.totalInteractions = d.dataFiltering.values.validInteractions
        /\ Len(metrics[1].agentUtilization)
             = Cardinality(ShownAgents(Input.agentStatus))

\* C23: the duration parser inlined in the Dashboard and the calculator's
\* parseTimeToMinutes return the same number of minutes for every text:
\* missing, empty, blank, padded with spaces, the zero sentinel, malformed.
\* The two average speeds of answer over one answered row show the two
\* parses of the same text.
C23_DashboardParserAgrees ==
  OneAnswered =>
    /\ DashboardParseTimeToMinutes(QueueText) = parseTimeToMinutes(QueueText)
    /\ metrics[1].avgSpeedOfAnswer = QueueSample

C23_Witness ==
  /\ OneAnswered
  /\ QueueText = <<" ">> \o T010000 \o <<" ">>
  /\ metrics[1].avgSpeedOfAnswer = Num(60)
  /\ QueueSample = Num(60)

\* C24: an optional file that was not uploaded reaches the computation as
\* an empty table, and the eight KPIs and the reconciliation finding are
\* those of the run with both optional tables empty, whatever the optional
\* tables hold.
C24_OptionalTablesDoNotInterfere ==
  /\ data # None =>
       \A f \in OptionalFiles : ~files[f].uploaded => Input[f] = <<>>
  /\ Rendered =>
       \A timeSummary \in TimeSummaryTables :
         Figures(Report) =
           Figures(calculateDetailedMetrics(Input.agentPerformance, Input.agentStatus,
                                            Input.trainingInteractions, timeSummary))

C24_Witness ==
  /\ Rendered
  /\ ~files["historicalAdherence"].uploaded
  /\ Input.historicalAdherence = <<>>
  /\ Input.timeSummary # <<>>
  /\ Report.totalCalls = Num(5)

C26_AnalyzeOnlyWhenComplete ==
  /\ data # None => allRequiredUploaded
  /\ pending # <<>> => allRequiredUploaded /\ loading
  /\ Len(pending) <= 1
  /\ ~allRequiredUploaded => ~analyzeAvailable /\ ~loading
  /\ loading => ~analyzeAvailable

\* An analysis is under way while a parse is still running.
C26_Witness ==
  /\ loading
  /\ Len(pending) = 1
  /\ parsing # {}
  /\ data = None

\* C27: with several parses under way and their callbacks in any order, no
\* upload is lost while the upload screen is shown: the callback of a parsed
\* file with an expected name marks that file uploaded with the rows of that
\* very file and leaves every other file as it is, a file marked uploaded
\* stays so, and a file of another name, or one that cannot be read, changes
\* no file's status.
C27_NoUploadLost ==
  [][/\ \A f \in DOMAIN files : files[f].uploaded => files'[f].uploaded
     /\ \A p \in parsing \ parsing' :
          IF "rows" \in DOMAIN p /\ p.name \in DOMAIN files /\ data = None
          THEN files' = [files EXCEPT ![p.name] = [uploaded |-> TRUE, data |-> p.rows]]
          ELSE files' = files
     /\ parsing \subseteq parsing' => files' = files]_vars

\* The agent-status file is marked with the rows of its first version while
\* its second version and a file of another name are still being parsed.
C27_Witness ==
  /\ files["agentStatus"] = [uploaded |-> TRUE, data |-> <<StatusRow(Ann, T010000, T003000)>>]
  /\ files["agentPerformance"].uploaded
  /\ ~files["timeSummary"].uploaded
  /\ parsing = {[name |-> "agentStatus", rows |-> <<>>],
                [name |-> "notes", rows |-> <<[Note |-> Ann]>>]}

\* The severity class an indicator text denotes.
SeverityOf(text) ==
  CASE text \in {"Acceptable variance", "Monitor trends", "acceptable"} -> "acceptable"
    [] text \in {"Review data export timeframes", "DATA INTEGRITY ISSUE"} -> "warning"
    [] text \in {"CRITICAL DISCREPANCY", "URGENT: Investigate missing agent data",
                 "URGENT DATA ISSUE"} -> "urgent"

\* C28: in a reconciliation finding the dataQualityFlag, the recommendedAction
\* and the result text denote the same severity class (acceptable, warning or
\* urgent), whatever the discrepancy percent.
C28_SeverityIndicatorsAgree ==
  Rendered =>
    LET finding == Report.calculationDetails.dataReconciliation
    IN  /\ SeverityOf(finding.values.dataQualityFlag) = SeverityOf(finding.result.text)
        /\ SeverityOf(finding.values.recommendedAction) = SeverityOf(finding.result.text)

\* The eight KPIs and the reconciliation discrepancy of a report.
OrderFreeFigures(r) ==
  [kpis        |-> [k \in KpiNames |-> r[k]],
   discrepancy |-> r.calculationDetails.dataReconciliation.values.callDiscrepancy,
   percent     |-> r.calculationDetails.dataReconciliation.values.discrepancyPercent]

\* C29: the eight KPIs and the reconciliation discrepancy do not depend on
\* the order of the rows: the report of the tables in any other order of
\* the rows of any of them shows the same figures (durations of whole
\* minutes).
C29_RowOrderIrrelevant ==
  Rendered =>
    /\ \A agentPerformance \in Orderings(Input.agentPerformance) :
         OrderFreeFigures(Report) =
           OrderFreeFigures(calculateDetailedMetrics(agentPerformance, Input.agentStatus,
                              Input.trainingInteractions, Input.timeSummary))
    /\ \A agentStatus \in Orderings(Input.agentStatus) :
         OrderFreeFigures(Report) =
           OrderFreeFigures(calculateDetailedMetrics(Input.agentPerformance, agentStatus,
                              Input.trainingInteractions, Input.timeSummary))
    /\ \A trainingInteractions \in Orderings(Input.trainingInteractions) :
         OrderFreeFigures(Report) =
           OrderFreeFigures(calculateDetailedMetrics(Input.agentPerformance,
                              Input.agentStatus, trainingInteractions, Input.timeSummary))

\* The abandoned row first and the agent with no logged time first: the
\* figures are those of any other order.
C29_Witness ==
  /\ Rendered
  /\ Input.trainingInteractions[1].Abandoned = YES
  /\ Input.trainingInteractions[3].TotalQueue = T000500
  /\ Input.agentStatus[1].LoggedIn = ZeroTime
  /\ Input.agentPerformance[1].Answered = <<"2", "0">>
  /\ Report.avgSpeedOfAnswer = Norm(35, 2)

\* C30: the answered-inbound count of the abandonment trace (inbound rows
\* minus abandoned rows) is the number of calls the Average Speed of Answer
\* and the Average Handle Time divide by (the inbound rows with Abandoned =
\* NO), whatever the Abandoned fields hold.
C30_AnsweredInboundCountsAgree ==
  Rendered =>
    LET d == Report.calculationDetails
    IN  /\ d.abandonmentRate.values.answeredInboundCalls
             = d.avgSpeedOfAnswer.values.answeredInboundCalls
        /\ d.abandonmentRate.values.answeredInboundCalls
             = d.avgHandleTime.values.handledCalls
        /\ d.avgSpeedOfAnswer.values.answeredInboundCalls
             = Num(Cardinality(KeptInbound(Input.trainingInteractions)
                                 \cap KeptWith(Input.trainingInteractions, NO)))

====
